---- MODULE Spec2Model ----
(***************************************************************************)
(* Model of streamlit_app.py, the GenAI adoption dashboard.                *)
(*                                                                         *)
(* A Streamlit script is one handler: every user interaction re-executes   *)
(* the whole script top to bottom against the widget values kept in the    *)
(* session.  The data frame returned by load_data is cached.               *)
(*                                                                         *)
(* Numbers.  Training hours and productivity change are real-valued in     *)
(* the CSV.  Both are kept here in tenths (605.0 h is 6050, 0.5 h is 5),   *)
(* so int(x) is a real truncation.  A mean is kept as the exact pair       *)
(* <<sum, count>>; the rounding of the f-strings (":.1f") is display only   *)
(* and is not modelled.                                                    *)
(***************************************************************************)
EXTENDS Integers, Sequences, FiniteSets, TLC

VARIABLES
    csv,          \* Enterprise_GenAI_Adoption_Impact.csv as it is on disk
    df,           \* the frame load_data returned (st.cache_data keeps it)
    session,      \* the widget values Streamlit keeps between runs
    filtered_df,  \* rows of filtered_df after the sidebar filters
    page          \* what the last run of the script rendered

vars == <<csv, df, session, filtered_df, page>>

---------------------------------------------------------------------------
(* Bounds of the model and the values the CSV cells are drawn from.        *)

MaxRows == 2

Industries == {"Finance", "Retail"}
Countries  == {"India", "USA"}
Tools      == {"ChatGPT", "Claude"}
Years      == {2023}
HoursPool  == {5, 1000, 6050}
ProdPool   == {-20, 150}
PlannedPool == {50, 300}

---------------------------------------------------------------------------
(* Small helpers.                                                          *)

Max(a, b) == IF a >= b THEN a ELSE b

RECURSIVE SeqSum(_)
SeqSum(s) == IF s = <<>> THEN 0 ELSE Head(s) + SeqSum(Tail(s))

SetMin(S) == CHOOSE x \in S : \A y \in S : x <= y
SetMax(S) == CHOOSE x \in S : \A y \in S : x >= y

\* Python's int() on a value kept in tenths: truncation toward zero.
IntTrunc(x) == IF x >= 0 THEN x \div 10 ELSE -((-x) \div 10)

---------------------------------------------------------------------------
(* The CSV file and load_data.                                             *)

CsvHeader ==
    {"Industry", "Country", "GenAI Tool", "Adoption Year",
     "Training Hours Provided", "Productivity Change (%)"}

CsvRow(i, c, t, y, h, p) ==
    ("Industry" :> i) @@ ("Country" :> c) @@ ("GenAI Tool" :> t) @@
    ("Adoption Year" :> y) @@ ("Training Hours Provided" :> h) @@
    ("Productivity Change (%)" :> p)

CsvRows ==
    {CsvRow(i, c, t, y, h, p) :
        i \in Industries, c \in Countries, t \in Tools,
        y \in Years, h \in HoursPool, p \in ProdPool}

CsvFiles ==
    {[header |-> CsvHeader, rows |-> rs] :
        rs \in UNION {[1..n -> CsvRows] : n \in 0..MaxRows}}

\* The columns= mapping handed to df.rename.
RenameMap ==
    ("Company Name" :> "Company_Name") @@
    ("GenAI Tool" :> "GenAI_Tool") @@
    ("Number of Employees Impacted" :> "Employees_Impacted") @@
    ("New Roles Created" :> "New_Roles_Created") @@
    ("Training Hours Provided" :> "Training_Hours") @@
    ("Productivity Change (%)" :> "Productivity_Change") @@
    ("Employee Sentiment" :> "Employee_Sentiment")

\* DataFrame.rename: a label the mapping names gets its new name, any other
\* label is kept.
Rename(c) == IF c \in DOMAIN RenameMap THEN RenameMap[c] ELSE c

RenameRow(r) ==
    [c2 \in {Rename(c) : c \in DOMAIN r} |->
        r[CHOOSE c \in DOMAIN r : Rename(c) = c2]]

load_data(file) ==
    [columns |-> {Rename(c) : c \in file.header},
     rows    |-> [k \in 1..Len(file.rows) |-> RenameRow(file.rows[k])]]

NoFrame == [columns |-> {}, rows |-> <<>>]

---------------------------------------------------------------------------
(* Widgets.  A selectbox value is its "All" entry or one value of the      *)
(* column it lists.                                                        *)

All == [all |-> TRUE, value |-> "All"]
AllIndustries == [all |-> TRUE, value |-> "(All industries)"]
AllCountries == [all |-> TRUE, value |-> "(All countries)"]
Opt(v) == [all |-> FALSE, value |-> v]

\* [first] + sorted(df[col].unique().tolist()): the order of the entries
\* only places them on the screen.
Options(d, col, first) ==
    {first} \cup {Opt(d.rows[k][col]) : k \in 1..Len(d.rows)}

NoSlider == [key |-> <<0, 0, 0>>, set |-> FALSE, value |-> 0]

InitSession ==
    [industry |-> All, country |-> All, tool |-> All, year |-> All,
     rec_industry |-> AllIndustries, rec_country |-> AllCountries,
     slider |-> NoSlider]

\* frame[frame[col] == value]
Where(rows, col, v) == SelectSeq(rows, LAMBDA r : r[col] = v)

---------------------------------------------------------------------------
(* The script, lines 37-60: the sidebar widgets and the filters.           *)

\* The rows a run holds before it filters, or after it raised.
NoView == <<>>

\* Lines 42-45: each selectbox reads a column of df for its options; a
\* label df does not have raises KeyError and ends the run.  Yields the
\* line that raises, or 0.
SidebarRaises(d) ==
    IF "Industry" \notin d.columns THEN 42
    ELSE IF "Country" \notin d.columns THEN 43
    ELSE IF "GenAI Tool" \notin d.columns THEN 44
    ELSE IF "Adoption Year" \notin d.columns THEN 45
    ELSE 0

\* Lines 48-60: yields the line that raises KeyError (or 0) and the rows.
ApplyFilters(d, s) ==
    LET r0 == d.rows
        r1 == IF s.industry.all THEN r0 ELSE Where(r0, "Industry", s.industry.value)
        r2 == IF s.country.all THEN r1 ELSE Where(r1, "Country", s.country.value)
        toolRaises == ~s.tool.all /\ "GenAI Tool" \notin d.columns
        r3 == IF s.tool.all THEN r2 ELSE Where(r2, "GenAI Tool", s.tool.value)
        r4 == IF s.year.all THEN r3 ELSE Where(r3, "Adoption Year", s.year.value)
    IN  IF toolRaises THEN [raises |-> 57, rows |-> NoView]
        ELSE [raises |-> 0, rows |-> r4]

\* A mean as the exact pair <<sum, count>>; count 0 is pandas' nan.
Mean(rows, col) == <<SeqSum([k \in 1..Len(rows) |-> rows[k][col]]), Len(rows)>>

MeanGE(a, b) == a[1] * b[2] >= b[1] * a[2]

\* Lines 71-86: the three st.metric of the KPI row.
KPIs(rows) ==
    [records   |-> Len(rows),
     avg_prod  |-> Mean(rows, "Productivity_Change"),
     avg_hours |-> Mean(rows, "Training_Hours")]

NoKpi == [records |-> -1, avg_prod |-> <<0, 0>>, avg_hours |-> <<0, 0>>]

---------------------------------------------------------------------------
(* The script, lines 95-174: the recommendation section.                   *)

MinWindow == 50

\* As if line 117 tested "rec_df is None", which no frame is.
IsEmpty_IsNone(rows) == FALSE

\* DataFrame.empty
IsEmpty(rows) == Len(rows) = 0

\* Lines 109-115.
RecFilter(rows, s) ==
    LET r1 == IF s.rec_industry.all THEN rows
              ELSE Where(rows, "Industry", s.rec_industry.value)
    IN  IF s.rec_country.all THEN r1
        ELSE Where(r1, "Country", s.rec_country.value)

\* Lines 123-126: groupby("GenAI_Tool")["Productivity_Change"].mean().
by_tool(rows) ==
    [t \in {rows[k]["GenAI_Tool"] : k \in 1..Len(rows)} |->
        Mean(Where(rows, "GenAI_Tool", t), "Productivity_Change")]

\* As if line 127 sorted ascending: the first row is a group of least mean.
TopTools_Ascending(rows) ==
    LET g == by_tool(rows)
    IN  {t \in DOMAIN g : \A u \in DOMAIN g : MeanGE(g[u], g[t])}

\* Lines 127-131: sort_values(ascending=False) and iloc[0].  The sort is
\* pandas' default quicksort, which is not stable: among groups of equal
\* mean any one may come first.
TopTools(rows) ==
    LET g == by_tool(rows)
    IN  {t \in DOMAIN g : \A u \in DOMAIN g : MeanGE(g[t], g[u])}

\* Line 133.
n_recs(rows, tool) == Len(Where(rows, "GenAI_Tool", tool))

HoursOf(rows) == {rows[k]["Training_Hours"] : k \in 1..Len(rows)}

\* Lines 142-143.
min_train(rows) == IntTrunc(SetMin(HoursOf(rows)))
max_train(rows) == IntTrunc(SetMax(HoursOf(rows)))

RECURSIVE Insert(_, _)
Insert(x, s) ==
    IF s = <<>> THEN <<x>>
    ELSE IF x <= Head(s) THEN <<x>> \o s
    ELSE <<Head(s)>> \o Insert(x, Tail(s))

RECURSIVE Sorted(_)
Sorted(s) == IF s = <<>> THEN <<>> ELSE Insert(Head(s), Sorted(Tail(s)))

\* Line 144: Series.median() is the middle value, or the mean of the two
\* middle values; twice the median is a whole number of tenths.
median_train(rows) ==
    LET h == Sorted([k \in 1..Len(rows) |-> rows[k]["Training_Hours"]])
        n == Len(h)
        twice == IF n % 2 = 1 THEN 2 * h[(n + 1) \div 2]
                 ELSE h[n \div 2] + h[n \div 2 + 1]
    IN  IF twice >= 0 THEN twice \div 20 ELSE -((-twice) \div 20)

\* As if the slider kept the value the user left whatever its bounds.
planned_hours_Stale(rows, s) ==
    IF s.slider.set THEN s.slider.value ELSE median_train(rows)

\* Lines 146-151: whether st.slider returns.  Streamlit releases that check
\* the bounds refuse min_value = max_value (StreamlitAPIException: "Slider
\* `min_value` must be less than the `max_value`"); the others show a
\* slider of one position.  Both outcomes are kept.
SliderReturns(lo, hi) == IF lo < hi THEN {TRUE} ELSE {TRUE, FALSE}

\* Lines 146-151: st.slider.  The widget is identified by its parameters:
\* the value the user left is kept while min_value, max_value and value
\* are the same, and a slider with other parameters starts at its default.
planned_hours(rows, s) ==
    LET key == <<min_train(rows), max_train(rows), median_train(rows)>>
    IN  IF s.slider.set /\ s.slider.key = key THEN s.slider.value
        ELSE median_train(rows)

\* Lines 154-155: int(0.1 * r) of a whole number r >= 0 is r \div 10.
window(rows) ==
    LET train_range == max_train(rows) - min_train(rows)
    IN  Max(MinWindow, train_range \div 10)

\* Lines 157-160; planned and w are whole hours, the column is in tenths.
close_df(rows, planned, w) ==
    SelectSeq(rows, LAMBDA r :
        /\ r["Training_Hours"] >= (planned - w) * 10
        /\ r["Training_Hours"] <= (planned + w) * 10)

\* As if line 170 averaged rec_df, not close_df.
Estimate_WholeView(rows, close) ==
    IF IsEmpty(close)
    THEN [kind |-> "fallback", expected_prod |-> Mean(rows, "Productivity_Change")]
    ELSE [kind |-> "windowed", expected_prod |-> Mean(rows, "Productivity_Change")]

\* Lines 162-174.
Estimate(rows, close) ==
    IF IsEmpty(close)
    THEN [kind |-> "fallback", expected_prod |-> Mean(rows, "Productivity_Change")]
    ELSE [kind |-> "windowed", expected_prod |-> Mean(close, "Productivity_Change")]

NoEstimate == [kind |-> "none", expected_prod |-> <<0, 0>>]

NoRec ==
    [kind |-> "none", top_tool |-> "", top_prod |-> <<0, 0>>, n_recs |-> 0,
     min_train |-> 0, max_train |-> 0, median_train |-> 0,
     planned_hours |-> 0, window |-> 0, close_df |-> <<>>,
     estimate |-> NoEstimate]

\* Lines 122-174 for the outcome `top` of the sort and the outcome
\* `returns` of the slider.  kind tells how far the section got: "best"
\* (st.success shown, the slider raised) or "estimate" (line 164 or 171
\* reached).
RecommendFor(rows, s, top, returns) ==
    LET best == [NoRec EXCEPT !.kind = "best", !.top_tool = top,
                    !.top_prod = by_tool(rows)[top],
                    !.n_recs = n_recs(rows, top),
                    !.min_train = min_train(rows),
                    !.max_train = max_train(rows),
                    !.median_train = median_train(rows)]
        planned == planned_hours(rows, s)
        w == window(rows)
        close == close_df(rows, planned, w)
    IN  IF ~returns THEN best
        ELSE [best EXCEPT !.kind = "estimate",
                 !.planned_hours = planned, !.window = w,
                 !.close_df = close, !.estimate = Estimate(rows, close)]

\* Lines 117-174: what the section can show.  "no data" is the st.info of
\* line 118; by_tool.iloc[0] raises IndexError when by_tool has no row.
Recommend(rows, s) ==
    IF IsEmpty(rows) THEN {[NoRec EXCEPT !.kind = "no data"]}
    ELSE IF TopTools(rows) = {} THEN {[NoRec EXCEPT !.kind = "IndexError"]}
    ELSE {RecommendFor(rows, s, top, returns) :
             top \in TopTools(rows),
             returns \in SliderReturns(min_train(rows), max_train(rows))}

\* The page of a run that a KeyError ended at `line`.
Raised(line) ==
    [status |-> "KeyError", line |-> line, filtered |-> FALSE, kpi |-> NoKpi,
     rec_df |-> NoView, rec |-> NoRec]

NoPage ==
    [status |-> "none", line |-> 0, filtered |-> FALSE, kpi |-> NoKpi,
     rec_df |-> NoView, rec |-> NoRec]

\* Lines 62-174 on the filtered rows: the pages the run can leave.  A page
\* records how the run ended (status, and the line that raised), whether
\* it got past the filters, and what it showed.
Body(rows, s) ==
    LET rec_df == RecFilter(rows, s)
    IN  {[status |-> CASE r.kind = "IndexError" -> "IndexError"
                       [] r.kind = "best" -> "StreamlitAPIException"
                       [] OTHER -> "ok",
          line |-> CASE r.kind = "IndexError" -> 130
                     [] r.kind = "best" -> 146
                     [] OTHER -> 0,
          filtered |-> TRUE, kpi |-> KPIs(rows), rec_df |-> rec_df, rec |-> r] :
         r \in Recommend(rec_df, s)}

\* One run of the script from line 37: the views and pages it can leave.
Script(d, s) ==
    IF SidebarRaises(d) # 0
    THEN {[view |-> NoView, page |-> Raised(SidebarRaises(d))]}
    ELSE LET f == ApplyFilters(d, s)
         IN  IF f.raises # 0
             THEN {[view |-> NoView, page |-> Raised(f.raises)]}
             ELSE {[view |-> f.rows, page |-> p] : p \in Body(f.rows, s)}

\* The slider state the session keeps after a run: that of the slider the
\* page shows, none when the run created no slider.
SliderAfter(p) ==
    IF p.rec.kind = "estimate"
    THEN [key |-> <<p.rec.min_train, p.rec.max_train, p.rec.median_train>>,
          set |-> TRUE, value |-> p.rec.planned_hours]
    ELSE NoSlider

---------------------------------------------------------------------------
(* The program: the first run loads the file, every later run is caused    *)
(* by the user changing a widget the page shows.  load_data renames the    *)
(* label "GenAI Tool", so line 44 raises on every frame it returns: the    *)
(* selectboxes of lines 44-45 and every widget below them are never shown  *)
(* and have no action here.  The charts and the table (lines 176-280)      *)
(* change no state and the columns only they read are left out of the      *)
(* file.                                                                   *)

Init ==
    /\ csv \in CsvFiles
    /\ df = NoFrame
    /\ session = InitSession
    /\ filtered_df = NoView
    /\ page = NoPage

\* The widgets a page shows: those created before the run ended.
Shown(p, line) == p.status = "ok" \/ (p.status # "none" /\ p.line > line)

\* One run of the script against the widget values s.
Run(d, s) ==
    \E o \in Script(d, s) :
        /\ filtered_df' = o.view
        /\ page' = o.page
        /\ session' = [s EXCEPT !.slider = SliderAfter(o.page)]

FirstRun ==
    /\ page.status = "none"
    /\ df = NoFrame
    /\ df' = load_data(csv)
    /\ Run(df', session)
    /\ UNCHANGED csv

ChangeIndustry ==
    /\ Shown(page, 42)
    /\ \E v \in Options(df, "Industry", All) :
        /\ v # session.industry
        /\ Run(df, [session EXCEPT !.industry = v])
    /\ UNCHANGED <<csv, df>>

ChangeCountry ==
    /\ Shown(page, 43)
    /\ \E v \in Options(df, "Country", All) :
        /\ v # session.country
        /\ Run(df, [session EXCEPT !.country = v])
    /\ UNCHANGED <<csv, df>>

Next == FirstRun \/ ChangeIndustry \/ ChangeCountry

Spec == Init /\ [][Next]_vars

---------------------------------------------------------------------------
(* Lines 62-174 as a function of the filtered view.  The section is        *)
(* entered with the loaded frame and with filtered_df, a view of it: the   *)
(* rows of df in their order, some of them removed.  The user then works   *)
(* the two recommendation selectors and the slider; the view stays.        *)

RECURSIVE Views(_)
Views(rows) ==
    IF rows = <<>> THEN {<<>>}
    ELSE LET rest == Views(Tail(rows))
         IN  rest \cup {<<Head(rows)>> \o v : v \in rest}

InitView ==
    /\ csv \in CsvFiles
    /\ df = load_data(csv)
    /\ session = InitSession
    /\ filtered_df \in Views(df.rows)
    /\ page = NoPage

\* Lines 62-174 run on filtered_df against the widget values s.
RunBody(s) ==
    \E p \in Body(filtered_df, s) :
        /\ page' = p
        /\ session' = [s EXCEPT !.slider = SliderAfter(p)]
    
RenderBody ==
    /\ page.status = "none"
    /\ RunBody(session)
    /\ UNCHANGED <<csv, df, filtered_df>>

ChangeRecIndustry ==
    /\ Shown(page, 98)
    /\ \E v \in Options(df, "Industry", AllIndustries) :
        /\ v # session.rec_industry
        /\ RunBody([session EXCEPT !.rec_industry = v])
    /\ UNCHANGED <<csv, df, filtered_df>>

ChangeRecCountry ==
    /\ Shown(page, 104)
    /\ \E v \in Options(df, "Country", AllCountries) :
        /\ v # session.rec_country
        /\ RunBody([session EXCEPT !.rec_country = v])
    /\ UNCHANGED <<csv, df, filtered_df>>

\* The positions the slider is moved to: its two ends and the pool's
\* values between them.
SliderInputs(lo, hi) == {lo, hi} \cup {v \in PlannedPool : lo <= v /\ v <= hi}

MoveSlider ==
    /\ Shown(page, 146)
    /\ page.rec.kind = "estimate"
    /\ \E v \in SliderInputs(page.rec.min_train, page.rec.max_train) :
        /\ v # session.slider.value
        /\ RunBody([session EXCEPT !.slider.value = v])
    /\ UNCHANGED <<csv, df, filtered_df>>

NextView == RenderBody \/ ChangeRecIndustry \/ ChangeRecCountry \/ MoveSlider

SpecView == InitView /\ [][NextView]_vars

---------------------------------------------------------------------------
(* Properties.  They are written over the rows themselves and do not use   *)
(* the operators of the script above.                                      *)

Ended == page.status # "none"

RECURSIVE ProdTotal(_)
ProdTotal(rows) ==
    IF rows = <<>> THEN 0
    ELSE Head(rows)["Productivity_Change"] + ProdTotal(Tail(rows))

RowsOfTool(rows, t) == SelectSeq(rows, LAMBDA r : r["GenAI_Tool"] = t)

\* The predicate set the sidebar holds: a selectbox on "All" is the empty
\* set, a chosen value v is {v}, and for the year the range [v, v].
PickSet(w) == IF w.all THEN {} ELSE {w.value}

Satisfies(r, s) ==
    /\ PickSet(s.industry) = {} \/ r["Industry"] \in PickSet(s.industry)
    /\ PickSet(s.country) = {} \/ r["Country"] \in PickSet(s.country)
    /\ PickSet(s.tool) = {} \/ r["GenAI_Tool"] \in PickSet(s.tool)
    /\ s.year.all \/ (s.year.value <= r["Adoption Year"] /\ r["Adoption Year"] <= s.year.value)

ExpectedView(d, s) == SelectSeq(d.rows, LAMBDA r : Satisfies(r, s))

ExpectedRecView(d, s) ==
    SelectSeq(ExpectedView(d, s), LAMBDA r :
        /\ s.rec_industry.all \/ r["Industry"] = s.rec_industry.value
        /\ s.rec_country.all \/ r["Country"] = s.rec_country.value)

\* C1: a run of the script leaves a filtered view, and it holds exactly the
\* records of the table that satisfy every constraint of the sidebar: none
\* that fails one (soundness), all that satisfy them (completeness).
C1_FilterExact ==
    Ended =>
        /\ page.filtered
        /\ \A k \in 1..Len(filtered_df) : Satisfies(filtered_df[k], session)
        /\ filtered_df = ExpectedView(df, session)

\* C2: with every sidebar filter on "All" the filtered view is the whole
\* table in its order, and the view is always the table with rows removed.
C2_NoConstraintFullTable ==
    Ended =>
        /\ page.filtered
        /\ filtered_df \in Views(df.rows)
        /\ (session.industry.all /\ session.country.all /\ session.tool.all
              /\ session.year.all) => filtered_df = df.rows

\* C3: when the filtered view has no row the run reports "no matches"
\* and does not go on to compute the KPI row over zero rows.
C3_NoMatchesSurfaced ==
    (page.filtered /\ filtered_df = <<>>) => page.kpi = NoKpi

\* C4: on an empty recommendation view the run ends without raising and
\* shows the "no data" result; no best tool, slider, window or estimate is
\* computed.
C4_EmptyViewNoData ==
    (page.filtered /\ page.rec_df = <<>>) =>
        /\ page.status = "ok"
        /\ page.rec = [NoRec EXCEPT !.kind = "no data"]

\* C4 happens: the selectors leave no row of a non-empty filtered view.
C4_Witness ==
    /\ page.status = "ok"
    /\ filtered_df # <<>>
    /\ page.rec_df = <<>>
    /\ page.rec.kind = "no data"

\* C5: on a non-empty recommendation view the best tool occurs in the
\* view, no tool of the view has a greater mean productivity change, the
\* reported mean is the mean over that tool's rows and the count is the
\* number of those rows, at least 1.
C5_BestTool ==
    (page.filtered /\ page.rec_df # <<>>) =>
        /\ page.rec.kind \in {"best", "estimate"}
        /\ LET rows == page.rec_df
               mine == RowsOfTool(rows, page.rec.top_tool)
           IN  /\ Len(mine) >= 1
               /\ \A k \in 1..Len(rows) :
                    LET other == RowsOfTool(rows, rows[k]["GenAI_Tool"])
                    IN  ProdTotal(mine) * Len(other) >= ProdTotal(other) * Len(mine)
               /\ page.rec.top_prod = <<ProdTotal(mine), Len(mine)>>
               /\ page.rec.n_recs = Len(mine)

\* C5 happens: two tools in the view, the best one with a strictly greater
\* mean than the other.
C5_Witness ==
    /\ page.rec.kind = "estimate"
    /\ \E k \in 1..Len(page.rec_df) :
        LET other == RowsOfTool(page.rec_df, page.rec_df[k]["GenAI_Tool"])
        IN  page.rec.top_prod[1] * Len(other) > ProdTotal(other) * page.rec.top_prod[2]

\* The rows of the view within planned-w .. planned+w hours, both ends in.
InWindow(rows, planned, w) ==
    SelectSeq(rows, LAMBDA r :
        /\ (planned - w) * 10 <= r["Training_Hours"]
        /\ r["Training_Hours"] <= (planned + w) * 10)

\* C6: the window is max(50, 0.1 * (max hours - min hours)) with nothing
\* truncated, and the windowed sub-view is the rows within the window.
\* In hundredths of an hour: 100 * window = max(5000, range in tenths).
C6_WindowUntruncated ==
    page.rec.kind = "estimate" =>
        LET rows == page.rec_df
            hs == {rows[k]["Training_Hours"] : k \in 1..Len(rows)}
        IN  /\ 100 * page.rec.window = Max(5000, SetMax(hs) - SetMin(hs))
            /\ page.rec.close_df =
                   InWindow(rows, page.rec.planned_hours, page.rec.window)

C9_Recomputed ==
    [][(Ended /\ page'.status # "none") =>
          /\ df' = df
          /\ df' = load_data(csv')
          /\ page'.filtered
          /\ filtered_df' = ExpectedView(df', session')
          /\ page'.rec_df = ExpectedRecView(df', session')]_vars

\* C10: the planned hours lie within the slider's bounds int(min) and
\* int(max) of the view; at either bound some row is in the window; the
\* fallback arises only strictly inside, with rows on both sides of the
\* window and none in it.
C10_SliderBounds ==
    page.rec.kind = "estimate" =>
        LET rows == page.rec_df
            hs == {rows[k]["Training_Hours"] : k \in 1..Len(rows)}
            lo == IntTrunc(SetMin(hs))
            hi == IntTrunc(SetMax(hs))
            planned == page.rec.planned_hours
            w == page.rec.window
        IN  /\ lo <= planned /\ planned <= hi
            /\ planned \in {lo, hi} => page.rec.estimate.kind = "windowed"
            /\ page.rec.estimate.kind = "fallback" =>
                /\ lo < planned /\ planned < hi
                /\ \A h \in hs : h < (planned - w) * 10 \/ h > (planned + w) * 10
                /\ \E h \in hs : h < (planned - w) * 10
                /\ \E h \in hs : h > (planned + w) * 10

\* C10 happens: the slider is moved to its upper bound, away from its
\* default, and the estimate is windowed.
C10_Witness ==
    /\ page.rec.kind = "estimate"
    /\ page.rec.planned_hours = page.rec.max_train
    /\ page.rec.planned_hours # page.rec.median_train
    /\ page.rec.estimate.kind = "windowed"

====
